---- MODULE Spec2Model ----
(***************************************************************************)
(* Model of library/cassandra_keyspace.py: an Ansible module that makes a  *)
(* Cassandra keyspace present or absent.                                   *)
(*                                                                         *)
(* The cluster's keyspace table is shared state.  Each process is one      *)
(* controller running the module: it validates its parameters, checks the  *)
(* driver import, connects, and runs keyspace_create or keyspace_delete.   *)
(* A process yields to the others at every driver call (connect, SELECT,   *)
(* CREATE, DROP); the code between two driver calls is local and is part   *)
(* of the action of the call that precedes it.                             *)
(***************************************************************************)
EXTENDS Integers, Sequences, FiniteSets, TLC

\* ------------------------------------------------------------------ bounds

\* Number of times a controller runs the same task (the first run included).
MaxRuns == 2

\* ------------------------------------------------------- program constants

\* argument_spec defaults (lines 140-167)
DefaultPort == 9042
DefaultReplicationFactor == 1
DefaultDatacenter == "datacenter1"
DefaultDurableWrites == TRUE

TopologyChoices == {"SimpleStrategy", "NetworkTopologyStrategy"}
StateChoices == {"absent", "present"}

\* A parameter the task does not give (module.params has no value for it).
Omitted == "<omitted>"

\* Python's None, the value get_keyspace returns when the query has no row.
None == [none |-> TRUE]

\* ---------------------------------------------------------- pure helpers

\* Python's bool(): None is false, a row (a non-empty dict) is true.
Bool(v) == v # None

Digit(d) ==
    CASE d = 0 -> "0" [] d = 1 -> "1" [] d = 2 -> "2" [] d = 3 -> "3"
      [] d = 4 -> "4" [] d = 5 -> "5" [] d = 6 -> "6" [] d = 7 -> "7"
      [] d = 8 -> "8" [] d = 9 -> "9"

RECURSIVE Decimal(_)
Decimal(n) == IF n < 10 THEN Digit(n) ELSE Decimal(n \div 10) \o Digit(n % 10)

\* '%s' % n for an int
FormatInt(n) == IF n < 0 THEN "-" \o Decimal(0 - n) ELSE Decimal(n)

\* '%s' % b for a bool
FormatBool(b) == IF b THEN "True" ELSE "False"

\* ------------------------------------------------------------- statements

GET_KEYSPACE == "SELECT * FROM system_schema.keyspaces WHERE keyspace_name = %s limit 1;"
DROP_KEYSPACE == "DROP KEYSPACE %s"

\* A statement as session.execute receives it: the query text, the parameters
\* the driver binds to it, and what the cluster reads from the two (the kind of
\* statement, the keyspace it names and its options).

\* session.execute(GET_KEYSPACE, [name])
GetKeyspaceStmt(name) ==
    [kind |-> "SELECT", query |-> GET_KEYSPACE, parameters |-> << name >>,
     name |-> name]

\* session.execute(DROP_KEYSPACE, [name])
DropKeyspaceStmt(name) ==
    [kind |-> "DROP", query |-> DROP_KEYSPACE, parameters |-> << name >>,
     name |-> name, if_exists |-> FALSE]

\* A keyspace_create that formats the SimpleStrategy text for every topology.
ReplicationLiteral_AlwaysSimple(topology, datacenter, replication_factor) ==
    << <<"class", topology>>,
       <<"replication_factor", FormatInt(replication_factor)>> >>

\* The replication map literal of the CREATE text, as its entries in the order
\* the format string writes them, each <<key text, value text>>: the first
\* format string for SimpleStrategy, the second for anything else.  The second
\* writes the datacenter as a key whatever it is, 'class' included.
ReplicationLiteral(topology, datacenter, replication_factor) ==
    IF topology = "SimpleStrategy"
    THEN << <<"class", topology>>,
            <<"replication_factor", FormatInt(replication_factor)>> >>
    ELSE << <<"class", topology>>,
            <<datacenter, FormatInt(replication_factor)>> >>

\* The entries as the format strings spell them:
\* { 'class' : '..', '<key>' : '..' }
ReplicationText(map) ==
    "{ '" \o map[1][1] \o "' : '" \o map[1][2] \o "', '" \o map[2][1]
    \o "' : '" \o map[2][2] \o "' }"

\* A keyspace_create whose statement is CREATE KEYSPACE IF NOT EXISTS.
CreateKeyspaceStmt_IfNotExists(name, topology, datacenter, replication_factor, durable_writes) ==
    LET map == ReplicationLiteral(topology, datacenter, replication_factor)
    IN  [kind           |-> "CREATE",
         query          |-> "CREATE KEYSPACE IF NOT EXISTS " \o name
                            \o " WITH REPLICATION = " \o ReplicationText(map)
                            \o " AND DURABLE_WRITES = " \o FormatBool(durable_writes)
                            \o ";",
         parameters     |-> << >>,
         name           |-> name,
         if_not_exists  |-> TRUE,
         replication    |-> map,
         durable_writes |-> FormatBool(durable_writes)]

\* session.execute(query % (...)) in keyspace_create
CreateKeyspaceStmt(name, topology, datacenter, replication_factor, durable_writes) ==
    LET map == ReplicationLiteral(topology, datacenter, replication_factor)
    IN  [kind           |-> "CREATE",
         query          |-> "CREATE KEYSPACE " \o name
                            \o " WITH REPLICATION = " \o ReplicationText(map)
                            \o " AND DURABLE_WRITES = " \o FormatBool(durable_writes)
                            \o ";",
         parameters     |-> << >>,
         name           |-> name,
         if_not_exists  |-> FALSE,
         replication    |-> map,
         durable_writes |-> FormatBool(durable_writes)]

\* ------------------------------------------------- the cluster (the driver)

\* system_schema.keyspaces stores the strategy class under its Java name.
ClassPrefix == "org.apache.cassandra.locator."

\* CQL reads a boolean literal case-insensitively.
ParseBool(text) == text \in {"True", "true", "TRUE"}

\* The map the cluster reads from a map literal: of two entries with the same
\* key the later one stands.
ReadMap(entries) ==
    [k \in {entries[i][1] : i \in 1..Len(entries)} |->
        LET last == CHOOSE i \in 1..Len(entries) :
                       /\ entries[i][1] = k
                       /\ \A j \in 1..Len(entries) : entries[j][1] = k => j <= i
        IN  entries[last][2]]

\* The replication strategy classes the cluster knows.
StrategyClasses == {"SimpleStrategy", "NetworkTopologyStrategy"}

\* The row of system_schema.keyspaces (row_factory = dict_factory) that a
\* CREATE statement leaves behind.
RowOf(stmt) ==
    [keyspace_name  |-> stmt.name,
     durable_writes |-> ParseBool(stmt.durable_writes),
     replication    |->
        [k \in DOMAIN ReadMap(stmt.replication) |->
            IF k = "class" THEN ClassPrefix \o ReadMap(stmt.replication)[k]
                           ELSE ReadMap(stmt.replication)[k]]]

\* Rows the SELECT returns: WHERE keyspace_name = name LIMIT 1.
SelectRows(ks, name) ==
    LET match == {r \in ks : r.keyspace_name = name}
    IN  IF match = {} THEN << >> ELSE << CHOOSE r \in match : TRUE >>

Exists(ks, name) == SelectRows(ks, name) # << >>

\* session.execute(stmt): the cluster's answer and its table afterwards.
\* The cluster is read at the level of what a statement means (its kind, the
\* keyspace it names, its options).  fault = TRUE is a statement the cluster
\* refuses for a reason of its own (unavailable, unauthorized, text or
\* replication options it does not accept); a refused statement changes
\* nothing.
Execute(ks, stmt, fault) ==
    CASE fault ->
           [error |-> "rejected", rows |-> << >>, keyspaces |-> ks]
      [] ~fault /\ stmt.kind = "SELECT" ->
           [error |-> "", rows |-> SelectRows(ks, stmt.name), keyspaces |-> ks]
      [] ~fault /\ stmt.kind = "CREATE" ->
           IF ReadMap(stmt.replication)["class"] \notin StrategyClasses
           THEN [error |-> "ConfigurationException", rows |-> << >>, keyspaces |-> ks]
           ELSE IF Exists(ks, stmt.name)
           THEN IF stmt.if_not_exists
                THEN [error |-> "", rows |-> << >>, keyspaces |-> ks]
                ELSE [error |-> "AlreadyExists", rows |-> << >>, keyspaces |-> ks]
           ELSE [error |-> "", rows |-> << >>, keyspaces |-> ks \cup {RowOf(stmt)}]
      [] ~fault /\ stmt.kind = "DROP" ->
           IF Exists(ks, stmt.name)
           THEN [error |-> "", rows |-> << >>,
                 keyspaces |-> {r \in ks : r.keyspace_name # stmt.name}]
           ELSE IF stmt.if_exists
                THEN [error |-> "", rows |-> << >>, keyspaces |-> ks]
                ELSE [error |-> "ConfigurationException", rows |-> << >>, keyspaces |-> ks]

\* get_keyspace's loop: the first row, or None when there is none.
FirstRow(rows) == IF rows = << >> THEN None ELSE rows[1]

\* --------------------------------------------------- keyspace_delete/create

\* A keyspace_delete that drops in check mode too.
DeleteExecutesDrop_IgnoresCheckMode(existing_keyspace, in_check_mode) ==
    Bool(existing_keyspace)

\* A keyspace_delete that reads the check-mode flag the wrong way round.
DeleteExecutesDrop_FlagInverted(existing_keyspace, in_check_mode) ==
    Bool(existing_keyspace) /\ in_check_mode

\* keyspace_delete: whether DROP is executed.
DeleteExecutesDrop(existing_keyspace, in_check_mode) ==
    Bool(existing_keyspace) /\ ~in_check_mode

\* A keyspace_delete whose `return True` is not under the `if`.
DeleteResult_AlwaysTrue(existing_keyspace) == TRUE

\* keyspace_delete: the value returned.
DeleteResult(existing_keyspace) == Bool(existing_keyspace)

\* keyspace_create: whether the function returns right after its first query.
CreateReturnsEarly(existing_keyspace, check_mode) == check_mode

\* A keyspace_create whose two early returns are swapped.
CreateEarlyResult_Swapped(existing_keyspace) == Bool(existing_keyspace)

\* keyspace_create: the value of an early return.
CreateEarlyResult(existing_keyspace) == ~Bool(existing_keyspace)

\* A keyspace_create that creates whenever it is not in check mode.
CreateExecutesCreate_IgnoresExisting(existing_keyspace, check_mode) == ~check_mode

\* keyspace_create: whether CREATE is executed.
CreateExecutesCreate(existing_keyspace, check_mode) ==
    ~Bool(existing_keyspace) /\ ~check_mode

\* A keyspace_create that returns bool(new_keyspace).
CreateResult_BoolOfNew(new_keyspace, existing_keyspace) == Bool(new_keyspace)

\* keyspace_create: the value returned after the second query.
CreateResult(new_keyspace, existing_keyspace) == new_keyspace # existing_keyspace

\* ------------------------------------------------------------------- main

\* An argument_spec without the `choices` entries.
ArgumentSpecOk_NoChoices(prm) ==
    /\ prm.login_user # Omitted
    /\ prm.login_password # Omitted
    /\ prm.login_hosts # Omitted
    /\ prm.name # Omitted
    /\ prm.topology # Omitted

\* AnsibleModule(argument_spec=...): required parameters are given and the
\* parameters with choices hold one of them.
ArgumentSpecOk(prm) ==
    /\ prm.login_user # Omitted
    /\ prm.login_password # Omitted
    /\ prm.login_hosts # Omitted
    /\ prm.name # Omitted
    /\ prm.topology \in TopologyChoices
    /\ prm.state \in StateChoices

\* `if not login_user` picks the cluster without an auth provider.
UsesAuthProvider(login_user) == login_user # ""

\* Cluster(...) and cluster.connect()
ConnectCall(prm) ==
    [kind  |-> "CONNECT",
     hosts |-> prm.login_hosts,
     port  |-> prm.login_port,
     auth  |-> UsesAuthProvider(prm.login_user)]

\* The msg of a failed connection: the fixed sentence and '%s' % e.
ConnectFailureMsg(e) ==
    "unable to connect to cassandra, check login_user and login_password are correct. Exception message: "
    \o e

\* The msg of a failed statement: str(e).
StatementFailureMsg(e) == e

\* module.fail_json(msg=...): the failure record written for the caller.
FailJson(out, msg) == Append(out, [failed |-> TRUE, msg |-> msg])

\* module.exit_json(changed=..., name=...)
ExitJson(out, changed, name) == Append(out, [changed |-> changed, name |-> name])

\* A main whose except clauses report and do not stop.
AfterCall_KeepsGoing(error, cont) == cont

\* try/except around a driver call: an exception ends the run in fail_json
\* (which exits the process), no exception goes on to `cont`.
AfterCall(error, cont) == IF error = "" THEN cont ELSE "failed"

\* ------------------------------------------------------------------ state

Procs == {1, 2}

VARIABLES
    keyspaces,            \* the cluster's system_schema.keyspaces rows
    params,               \* per process: module.params and module.check_mode
    cassandra_dep_found,  \* per process: the module-level import flag
    pc,                   \* per process: where main is
    existing_keyspace,    \* per process: the local of keyspace_create/delete
    calls,                \* per process: driver calls of this run, with answers
    stdout,               \* per process: records written by exit_json/fail_json
    history,              \* per process: calls and stdout of its earlier runs
    interfered            \* per process: another process changed its keyspace
                          \* between its first query and its return

vars == <<keyspaces, params, cassandra_dep_found, pc, existing_keyspace,
          calls, stdout, history, interfered>>

\* Rows present before any process runs.
SeedRows ==
    { RowOf(CreateKeyspaceStmt("foo", "SimpleStrategy", DefaultDatacenter,
                               DefaultReplicationFactor, DefaultDurableWrites)),
      RowOf(CreateKeyspaceStmt("foo", "NetworkTopologyStrategy", "dc1", 3, FALSE)),
      RowOf(CreateKeyspaceStmt("bar", "SimpleStrategy", DefaultDatacenter,
                               DefaultReplicationFactor, DefaultDurableWrites)) }

\* Keyspace names are unique within a cluster.
InitialClusters ==
    { ks \in SUBSET SeedRows :
        \A r1, r2 \in ks : r1.keyspace_name = r2.keyspace_name => r1 = r2 }

\* Task parameters of a single controller: every parameter varies.
SoloParams ==
    [login_user         : {Omitted, "", "cassandra"},
     login_password     : {Omitted, "cassandra"},
     login_hosts        : {Omitted, "localhost"},
     login_port         : {DefaultPort},
     name               : {Omitted, "foo", "bar"},
     topology           : TopologyChoices \cup {"simple"},
     datacenter         : {DefaultDatacenter, "dc1", "class"},
     replication_factor : {DefaultReplicationFactor, 3},
     durable_writes     : BOOLEAN,
     state              : StateChoices \cup {"latest"},
     check_mode         : BOOLEAN]

\* Task parameters of two controllers working on the same keyspace.
RaceParams ==
    [login_user         : {"cassandra"},
     login_password     : {"cassandra"},
     login_hosts        : {"localhost"},
     login_port         : {DefaultPort},
     name               : {"foo"},
     topology           : TopologyChoices \cup {"simple"},
     datacenter         : {DefaultDatacenter},
     replication_factor : {DefaultReplicationFactor},
     durable_writes     : {DefaultDurableWrites},
     state              : StateChoices,
     check_mode         : BOOLEAN]

IdleParams == CHOOSE prm \in RaceParams : TRUE

InitLocals ==
    /\ pc = [p \in Procs |-> "main"]
    /\ existing_keyspace = [p \in Procs |-> None]
    /\ calls = [p \in Procs |-> << >>]
    /\ stdout = [p \in Procs |-> << >>]
    /\ history = [p \in Procs |-> << >>]
    /\ interfered = [p \in Procs |-> FALSE]

Init ==
    /\ keyspaces \in InitialClusters
    /\ params \in [Procs -> RaceParams]
    /\ cassandra_dep_found \in [Procs -> BOOLEAN]
    /\ InitLocals

InitSolo ==
    /\ keyspaces \in InitialClusters
    /\ \E prm \in SoloParams : params = [p \in Procs |-> IF p = 1 THEN prm ELSE IdleParams]
    /\ \E dep \in BOOLEAN : cassandra_dep_found = [p \in Procs |-> IF p = 1 THEN dep ELSE TRUE]
    /\ InitLocals

\* ---------------------------------------------------------------- actions

Logged(stmt, res) == [stmt |-> stmt, error |-> res.error, rows |-> res.rows]

\* The run of p ends in fail_json.
Fail(p, msg) ==
    /\ pc' = [pc EXCEPT ![p] = "failed"]
    /\ stdout' = [stdout EXCEPT ![p] = FailJson(@, msg)]

\* The run of p ends in exit_json.
Exit(p, changed) ==
    /\ pc' = [pc EXCEPT ![p] = "done"]
    /\ stdout' = [stdout EXCEPT ![p] = ExitJson(@, changed, params[p].name)]

\* A driver call of p inside try/except: an exception is reported by
\* fail_json, and main goes where AfterCall says.
Continue(p, error, msg, cont) ==
    /\ pc' = [pc EXCEPT ![p] = AfterCall(error, cont)]
    /\ stdout' = IF error = "" THEN stdout
                 ELSE [stdout EXCEPT ![p] = FailJson(@, msg)]

\* A statement of q that changed the table disturbs every other process that
\* is between its first query of that keyspace and its return.
Disturb(q, name, ks) ==
    interfered' =
        [r \in Procs |->
            IF /\ r # q
               /\ ks # keyspaces
               /\ params[r].name = name
               /\ pc[r] \in {"create", "recheck", "drop"}
            THEN TRUE
            ELSE interfered[r]]

\* main, line 125: AnsibleModule(...) validates the parameters.
ModuleInit(p) ==
    /\ pc[p] = "main"
    /\ IF ArgumentSpecOk(params[p])
       THEN /\ pc' = [pc EXCEPT ![p] = "import"]
            /\ UNCHANGED stdout
       ELSE Fail(p, "argument error")
    /\ UNCHANGED <<keyspaces, params, cassandra_dep_found, existing_keyspace,
                   calls, history, interfered>>

\* main, line 182: the driver import flag.
ImportCheck(p) ==
    /\ pc[p] = "import"
    /\ IF cassandra_dep_found[p]
       THEN /\ pc' = [pc EXCEPT ![p] = "connect"]
            /\ UNCHANGED stdout
       ELSE Fail(p, "the python cassandra-driver module is required")
    /\ UNCHANGED <<keyspaces, params, cassandra_dep_found, existing_keyspace,
                   calls, history, interfered>>

\* main, lines 185-199: Cluster(...).connect()
Connect(p) ==
    /\ pc[p] = "connect"
    /\ \E refused \in BOOLEAN :
         LET error == IF refused THEN "NoHostAvailable" ELSE ""
         IN  /\ calls' = [calls EXCEPT ![p] =
                   Append(@, [stmt |-> ConnectCall(params[p]), error |-> error,
                              rows |-> << >>])]
             /\ Continue(p, error, ConnectFailureMsg(error), "connected")
    /\ UNCHANGED <<keyspaces, params, cassandra_dep_found, existing_keyspace,
                   history, interfered>>

\* keyspace_create, lines 107-113: the first query and the decision.
KeyspaceCreateGet(p) ==
    /\ pc[p] = "connected"
    /\ params[p].state = "present"
    /\ \E fault \in BOOLEAN :
         LET stmt == GetKeyspaceStmt(params[p].name)
             res  == Execute(keyspaces, stmt, fault)
             row  == FirstRow(res.rows)
         IN  /\ calls' = [calls EXCEPT ![p] = Append(@, Logged(stmt, res))]
             /\ existing_keyspace' = [existing_keyspace EXCEPT ![p] = row]
             /\ IF res.error = "" /\ CreateReturnsEarly(row, params[p].check_mode)
                THEN Exit(p, CreateEarlyResult(row))
                ELSE Continue(p, res.error, StatementFailureMsg(res.error),
                        IF CreateExecutesCreate(row, params[p].check_mode)
                        THEN "create" ELSE "recheck")
    /\ UNCHANGED <<keyspaces, params, cassandra_dep_found, history, interfered>>

\* keyspace_create, lines 114-119: the CREATE statement.
KeyspaceCreateExecute(p) ==
    /\ pc[p] = "create"
    /\ \E fault \in BOOLEAN :
         LET stmt == CreateKeyspaceStmt(params[p].name, params[p].topology,
                        params[p].datacenter, params[p].replication_factor,
                        params[p].durable_writes)
             res  == Execute(keyspaces, stmt, fault)
         IN  /\ calls' = [calls EXCEPT ![p] = Append(@, Logged(stmt, res))]
             /\ keyspaces' = res.keyspaces
             /\ Disturb(p, stmt.name, res.keyspaces)
             /\ Continue(p, res.error, StatementFailureMsg(res.error), "recheck")
    /\ UNCHANGED <<params, cassandra_dep_found, existing_keyspace, history>>

\* keyspace_create, lines 120-121, and exit_json, line 211.
KeyspaceCreateRecheck(p) ==
    /\ pc[p] = "recheck"
    /\ \E fault \in BOOLEAN :
         LET stmt == GetKeyspaceStmt(params[p].name)
             res  == Execute(keyspaces, stmt, fault)
             new_keyspace == FirstRow(res.rows)
         IN  /\ calls' = [calls EXCEPT ![p] = Append(@, Logged(stmt, res))]
             /\ IF res.error = ""
                THEN Exit(p, CreateResult(new_keyspace, existing_keyspace[p]))
                ELSE Continue(p, res.error, StatementFailureMsg(res.error), "done")
    /\ UNCHANGED <<keyspaces, params, cassandra_dep_found, existing_keyspace,
                   history, interfered>>

\* keyspace_delete, lines 91-97: the query and the decision.
KeyspaceDeleteGet(p) ==
    /\ pc[p] = "connected"
    /\ params[p].state = "absent"
    /\ \E fault \in BOOLEAN :
         LET stmt == GetKeyspaceStmt(params[p].name)
             res  == Execute(keyspaces, stmt, fault)
             row  == FirstRow(res.rows)
         IN  /\ calls' = [calls EXCEPT ![p] = Append(@, Logged(stmt, res))]
             /\ existing_keyspace' = [existing_keyspace EXCEPT ![p] = row]
             /\ IF res.error = "" /\ ~DeleteExecutesDrop(row, params[p].check_mode)
                THEN Exit(p, DeleteResult(row))
                ELSE Continue(p, res.error, StatementFailureMsg(res.error), "drop")
    /\ UNCHANGED <<keyspaces, params, cassandra_dep_found, history, interfered>>

\* keyspace_delete, lines 94-95, and exit_json, line 211.
KeyspaceDeleteDrop(p) ==
    /\ pc[p] = "drop"
    /\ \E fault \in BOOLEAN :
         LET stmt == DropKeyspaceStmt(params[p].name)
             res  == Execute(keyspaces, stmt, fault)
         IN  /\ calls' = [calls EXCEPT ![p] = Append(@, Logged(stmt, res))]
             /\ keyspaces' = res.keyspaces
             /\ Disturb(p, stmt.name, res.keyspaces)
             /\ IF res.error = ""
                THEN Exit(p, DeleteResult(existing_keyspace[p]))
                ELSE Continue(p, res.error, StatementFailureMsg(res.error), "done")
    /\ UNCHANGED <<params, cassandra_dep_found, existing_keyspace, history>>

\* The controller runs the same task again after a run that succeeded (a
\* failed task stops the play).
Rerun(p) ==
    /\ pc[p] = "done"
    /\ Len(history[p]) + 1 < MaxRuns
    /\ history' = [history EXCEPT ![p] =
            Append(@, [calls |-> calls[p], stdout |-> stdout[p]])]
    /\ pc' = [pc EXCEPT ![p] = "main"]
    /\ calls' = [calls EXCEPT ![p] = << >>]
    /\ stdout' = [stdout EXCEPT ![p] = << >>]
    /\ existing_keyspace' = [existing_keyspace EXCEPT ![p] = None]
    /\ interfered' = [interfered EXCEPT ![p] = FALSE]
    /\ UNCHANGED <<keyspaces, params, cassandra_dep_found>>

Run(p) ==
    \/ ModuleInit(p)
    \/ ImportCheck(p)
    \/ Connect(p)
    \/ KeyspaceCreateGet(p)
    \/ KeyspaceCreateExecute(p)
    \/ KeyspaceCreateRecheck(p)
    \/ KeyspaceDeleteGet(p)
    \/ KeyspaceDeleteDrop(p)
    \/ Rerun(p)

Next == \E p \in Procs : Run(p)

\* Controllers running against one cluster at the same time.
Spec == Init /\ [][Next]_vars

NextSolo == Run(1)

\* One controller, and nobody else changing the cluster.
SpecSolo == InitSolo /\ [][NextSolo]_vars

\* ------------------------------------------------- what a run can be seen to do

\* Positions in a call log of the statements of the given kinds.
Issued(cs, kinds) == {i \in 1..Len(cs) : cs[i].stmt.kind \in kinds}

Mutating == {"CREATE", "DROP"}

\* The first metadata query of the log was answered with a row / with no row.
FoundFirst(cs) ==
    \E i \in Issued(cs, {"SELECT"}) :
        /\ \A j \in Issued(cs, {"SELECT"}) : i <= j
        /\ cs[i].error = "" /\ cs[i].rows # << >>

MissedFirst(cs) ==
    \E i \in Issued(cs, {"SELECT"}) :
        /\ \A j \in Issued(cs, {"SELECT"}) : i <= j
        /\ cs[i].error = "" /\ cs[i].rows = << >>

\* The row the first metadata query of the log returned.
FirstSeen(cs) ==
    LET i == CHOOSE i \in Issued(cs, {"SELECT"}) :
                \A j \in Issued(cs, {"SELECT"}) : i <= j
    IN  cs[i].rows

\* The completed runs of p, oldest first.
Runs(p) ==
    history[p] \o (IF pc[p] = "done"
                   THEN << [calls |-> calls[p], stdout |-> stdout[p]] >>
                   ELSE << >>)

ResultRecord(changed, name) == << [changed |-> changed, name |-> name] >>

\* What the task of p asks the CREATE statement to set up.
DesiredRow(prm) ==
    [keyspace_name  |-> prm.name,
     durable_writes |-> prm.durable_writes,
     replication    |->
        IF prm.topology = "SimpleStrategy"
        THEN [class |-> ClassPrefix \o "SimpleStrategy",
              replication_factor |-> FormatInt(prm.replication_factor)]
        ELSE ("class" :> ClassPrefix \o "NetworkTopologyStrategy")
             @@ (prm.datacenter :> FormatInt(prm.replication_factor))]

\* ------------------------------------------------------------------ claims

\* C1: with one controller and nobody else acting, when a non-dry-run
\* state=present run finds the keyspace absent, that run reports changed=true,
\* and the run of the same task right after it reports changed=false and
\* issues no CREATE.
C1_Idempotent ==
    \A p \in Procs :
      \A k \in 1..(Len(Runs(p)) - 1) :
        LET first  == Runs(p)[k]
            second == Runs(p)[k + 1]
        IN  (/\ params[p].state = "present"
             /\ ~params[p].check_mode
             /\ MissedFirst(first.calls))
            => /\ first.stdout = ResultRecord(TRUE, params[p].name)
               /\ second.stdout = ResultRecord(FALSE, params[p].name)
               /\ Issued(second.calls, {"CREATE"}) = {}

\* Two runs in a row, the first of which created the keyspace.
C1_Witness ==
    /\ Len(Runs(1)) >= 2
    /\ params[1].state = "present"
    /\ ~params[1].check_mode
    /\ MissedFirst(Runs(1)[1].calls)
    /\ Issued(Runs(1)[1].calls, {"CREATE"}) # {}

\* C5: with one controller and nobody else acting, a state=present run whose
\* metadata query finds the keyspace issues no CREATE and no DROP, leaves the
\* keyspace's row as it found it, and, when it completes, reports
\* changed=false, in check mode and out of it, whatever the desired attributes.
C5_ExistingUntouched ==
    \A p \in Procs :
      (params[p].state = "present" /\ FoundFirst(calls[p]))
      => /\ Issued(calls[p], Mutating) = {}
         /\ SelectRows(keyspaces, params[p].name) = FirstSeen(calls[p])
         /\ pc[p] = "done" => stdout[p] = ResultRecord(FALSE, params[p].name)

\* A completed non-dry-run over a keyspace whose row is not the desired one.
C5_Witness ==
    /\ pc[1] = "done"
    /\ params[1].state = "present"
    /\ ~params[1].check_mode
    /\ FoundFirst(calls[1])
    /\ FirstSeen(calls[1]) # << DesiredRow(params[1]) >>
    /\ Len(calls[1]) = 3

\* C10: with one controller and nobody else acting, every step leaves the
\* keyspaces of other names alone; a run issues at most one mutating
\* statement, no DROP under state=present and no CREATE under state=absent;
\* and a completed non-dry-run ends with the keyspace existing under
\* state=present and not existing under state=absent.
C10_State ==
    \A p \in Procs :
      /\ Cardinality(Issued(calls[p], Mutating)) <= 1
      /\ params[p].state = "present" => Issued(calls[p], {"DROP"}) = {}
      /\ params[p].state = "absent" => Issued(calls[p], {"CREATE"}) = {}
      /\ (pc[p] = "done" /\ ~params[p].check_mode)
         => (Exists(keyspaces, params[p].name) <=> params[p].state = "present")

\* C10, over every step: keyspaces of other names are left alone and the state
\* part above holds after it.
C10_Converges ==
    [][ /\ \A r \in keyspaces \cup keyspaces' :
             r.keyspace_name # params[1].name
             => (r \in keyspaces <=> r \in keyspaces')
        /\ C10_State' ]_vars

\* A completed non-dry-run that had to drop the keyspace while another
\* keyspace exists.
C10_Witness ==
    /\ pc[1] = "done"
    /\ ~params[1].check_mode
    /\ params[1].state = "absent"
    /\ Issued(calls[1], {"DROP"}) # {}
    /\ keyspaces # {}

\* C2: a step of a run in check mode never changes the cluster's keyspaces,
\* and the run never has a CREATE or a DROP among its statements, whatever
\* the task asks for and whatever the cluster holds.
C2_CheckModeNeverMutates ==
    [][ \A p \in Procs :
          (params[p].check_mode /\ calls'[p] # calls[p])
          => /\ keyspaces' = keyspaces
             /\ Issued(calls'[p], Mutating) = {} ]_vars

\* A check-mode run that reported a change it would make.
C2_Witness ==
    /\ params[1].check_mode
    /\ params[1].state = "absent"
    /\ pc[1] = "done"
    /\ stdout[1] = ResultRecord(TRUE, params[1].name)
    /\ Exists(keyspaces, params[1].name)

\* C4: a completed state=absent run reports changed = whether its metadata
\* query found the keyspace.  Not found: no DROP.  Found, check mode: no DROP.
\* Found, not check mode: exactly one DROP, of that name, which succeeded.
C4_DeleteReportsFound ==
    \A p \in Procs :
      params[p].state = "absent"
      => /\ Issued(calls[p], {"CREATE"}) = {}
         /\ MissedFirst(calls[p]) => Issued(calls[p], {"DROP"}) = {}
         /\ params[p].check_mode => Issued(calls[p], {"DROP"}) = {}
         /\ pc[p] = "done"
            => /\ stdout[p] = ResultRecord(FoundFirst(calls[p]), params[p].name)
               /\ (FoundFirst(calls[p]) /\ ~params[p].check_mode)
                  => \E i \in 1..Len(calls[p]) :
                       /\ Issued(calls[p], {"DROP"}) = {i}
                       /\ calls[p][i].stmt.name = params[p].name
                       /\ calls[p][i].error = ""

\* A completed run that dropped the keyspace it found.
C4_Witness ==
    /\ params[1].state = "absent"
    /\ ~params[1].check_mode
    /\ pc[1] = "done"
    /\ FoundFirst(calls[1])
    /\ Issued(calls[1], {"DROP"}) # {}

\* The two CREATE forms of the interface description.
C6_Text(prm) ==
    LET flag == IF prm.durable_writes THEN "True" ELSE "False"
        n    == FormatInt(prm.replication_factor)
    IN  IF prm.topology = "SimpleStrategy"
        THEN "CREATE KEYSPACE " \o prm.name
             \o " WITH REPLICATION = { 'class' : 'SimpleStrategy', 'replication_factor' : '"
             \o n \o "' } AND DURABLE_WRITES = " \o flag \o ";"
        ELSE "CREATE KEYSPACE " \o prm.name
             \o " WITH REPLICATION = { 'class' : 'NetworkTopologyStrategy', '"
             \o prm.datacenter \o "' : '" \o n \o "' } AND DURABLE_WRITES = "
             \o flag \o ";"

\* C6: the CREATE a run issues is the only one of the run, names the requested
\* keyspace and durable-writes flag, and carries the replication map of its
\* topology: the two entries class and replication_factor: n, none of them
\* made from the datacenter, for SimpleStrategy; the two entries class and
\* <datacenter>: n for NetworkTopologyStrategy, whatever the datacenter.  With
\* nobody else acting, once it succeeds the cluster holds the requested row and
\* the completed run reports changed=true.
C6_CreateByTopology ==
    \A p \in Procs :
      \A i \in Issued(calls[p], {"CREATE"}) :
        LET stmt == calls[p][i].stmt
            prm  == params[p]
            n    == FormatInt(prm.replication_factor)
        IN  /\ Issued(calls[p], {"CREATE"}) = {i}
            /\ stmt.name = prm.name
            /\ stmt.parameters = << >>
            /\ stmt.query = C6_Text(prm)
            /\ stmt.durable_writes = (IF prm.durable_writes THEN "True" ELSE "False")
            /\ prm.topology = "SimpleStrategy"
               => stmt.replication = << <<"class", "SimpleStrategy">>,
                                        <<"replication_factor", n>> >>
            /\ prm.topology = "NetworkTopologyStrategy"
               => stmt.replication = << <<"class", "NetworkTopologyStrategy">>,
                                        <<prm.datacenter, n>> >>
            /\ calls[p][i].error = ""
               => /\ SelectRows(keyspaces, prm.name) = << DesiredRow(prm) >>
                  /\ pc[p] = "done" => stdout[p] = ResultRecord(TRUE, prm.name)

\* A completed run that created a NetworkTopologyStrategy keyspace in dc1 with
\* three replicas.
C6_Witness ==
    /\ pc[1] = "done"
    /\ params[1].topology = "NetworkTopologyStrategy"
    /\ params[1].datacenter = "dc1"
    /\ params[1].replication_factor = 3
    /\ \E i \in Issued(calls[1], {"CREATE"}) :
         /\ calls[1][i].error = ""
         /\ calls[1][i].stmt.query =
              "CREATE KEYSPACE foo WITH REPLICATION = { 'class' : 'NetworkTopologyStrategy', 'dc1' : '3' } AND DURABLE_WRITES = True;"

\* C7: a failed driver call (connect, query, CREATE, DROP) is the last call of
\* its run: the run ends there with the single record {failed, msg} carrying
\* the error, never a {changed, name} record, the failed call leaves the
\* cluster's keyspaces as they were, and a failed run does nothing more.
C7_Failures(p) ==
    /\ \A i \in 1..Len(calls[p]) : calls[p][i].error # "" => i = Len(calls[p])
    /\ (\E i \in 1..Len(calls[p]) : calls[p][i].error # "") => pc[p] = "failed"
    /\ pc[p] = "failed"
       => /\ Len(stdout[p]) = 1
          /\ DOMAIN stdout[p][1] = {"failed", "msg"}
    /\ pc[p] = "done"
       => /\ Len(stdout[p]) = 1
          /\ DOMAIN stdout[p][1] = {"changed", "name"}

\* The message of the failure record: the error of a failed statement as it
\* is, the error of a failed connection after the sentence that introduces it.
C7_Msg(call) ==
    IF call.stmt.kind = "CONNECT"
    THEN "unable to connect to cassandra, check login_user and login_password are correct. Exception message: "
         \o call.error
    ELSE call.error

\* C7, over every step: the state part above holds after it, a failed run
\* stays as it is, and a call that failed changed no keyspace and wrote the
\* failure record.
C7_ErrorsAreTerminal ==
    [][ \A p \in Procs :
          /\ C7_Failures(p)'
          /\ pc[p] = "failed"
             => (pc'[p] = pc[p] /\ calls'[p] = calls[p] /\ stdout'[p] = stdout[p])
          /\ (/\ Len(calls'[p]) = Len(calls[p]) + 1
              /\ calls'[p][Len(calls'[p])].error # "")
             => /\ keyspaces' = keyspaces
                /\ stdout'[p] = << [failed |-> TRUE,
                                    msg |-> C7_Msg(calls'[p][Len(calls'[p])])] >> ]_vars

\* A run that ended on a CREATE the cluster refused although the keyspace did
\* not exist.
C7_Witness ==
    /\ pc[1] = "failed"
    /\ calls[1] # << >>
    /\ calls[1][Len(calls[1])].stmt.kind = "CREATE"
    /\ calls[1][Len(calls[1])].error = "rejected"
    /\ ~Exists(keyspaces, params[1].name)

\* A task the module must refuse: a required parameter is not given, topology
\* or state is not one of its choices, or the driver cannot be imported.
ConfigurationError(p) ==
    \/ Omitted \in {params[p].login_user, params[p].login_password,
                    params[p].login_hosts, params[p].name}
    \/ params[p].topology \notin {"SimpleStrategy", "NetworkTopologyStrategy"}
    \/ params[p].state \notin {"present", "absent"}
    \/ ~cassandra_dep_found[p]

\* C8: a run with a configuration error makes no driver call at all (no
\* connection attempt, no query, no CREATE or DROP) and never completes with a
\* result: it stops in fail_json before the connection.
C8_ConfigErrorsBeforeNetwork ==
    \A p \in Procs :
      ConfigurationError(p)
      => /\ calls[p] = << >>
         /\ history[p] = << >>
         /\ pc[p] \in {"main", "import", "failed"}
         /\ pc[p] = "failed" => DOMAIN stdout[p][1] = {"failed", "msg"}

\* A run refused for a topology outside the choices (the one the module's own
\* EXAMPLES use).
C8_Witness ==
    /\ params[1].topology = "simple"
    /\ cassandra_dep_found[1]
    /\ pc[1] = "failed"
    /\ calls[1] = << >>

\* C9: the CREATE of a run reaches the cluster in a later step than the run's
\* metadata query.  A CREATE that arrives when the keyspace exists (another
\* run created it in between) is rejected: that run ends with a failure record
\* and the keyspace still exists.  The same for a DROP that arrives when the
\* keyspace is gone.
C9_LateStatementRejected ==
    [][ \A p \in Procs :
          Len(calls'[p]) = Len(calls[p]) + 1
          => LET call == calls'[p][Len(calls'[p])]
                 late == \/ /\ call.stmt.kind = "CREATE"
                            /\ Exists(keyspaces, call.stmt.name)
                         \/ /\ call.stmt.kind = "DROP"
                            /\ ~Exists(keyspaces, call.stmt.name)
             IN  late => /\ MissedFirst(calls[p]) \/ FoundFirst(calls[p])
                         /\ call.error # ""
                         /\ pc'[p] = "failed"
                         /\ DOMAIN stdout'[p][1] = {"failed", "msg"}
                         /\ keyspaces' = keyspaces ]_vars

\* Both controllers saw the keyspace absent, both sent CREATE; the first
\* CREATE made the keyspace and the second was answered AlreadyExists.
C9_Witness ==
    /\ \A p \in Procs :
         /\ params[p].state = "present"
         /\ MissedFirst(calls[p])
         /\ Issued(calls[p], {"CREATE"}) # {}
    /\ calls[1][Len(calls[1])].error = ""
    /\ calls[2][Len(calls[2])].error = "AlreadyExists"
    /\ pc[2] = "failed"
    /\ Exists(keyspaces, "foo")

\* Both controllers saw the keyspace, both sent DROP; the second DROP found
\* nothing to drop.
C9_DropRaceReached ==
    /\ \A p \in Procs :
         /\ params[p].state = "absent"
         /\ FoundFirst(calls[p])
         /\ Issued(calls[p], {"DROP"}) # {}
    /\ pc[1] = "done"
    /\ calls[2][Len(calls[2])].error = "ConfigurationException"
    /\ pc[2] = "failed"
    /\ ~Exists(keyspaces, "foo")

\* Whether the completed run of p applied a mutation, and whether a run out of
\* check mode would have applied one to the cluster its query saw.
Applied(p) == \E i \in Issued(calls[p], Mutating) : calls[p][i].error = ""

WouldApply(p) ==
    IF params[p].state = "present" THEN MissedFirst(calls[p])
                                   ELSE FoundFirst(calls[p])

ChangedIsRight(p) ==
    stdout[p] = ResultRecord(IF params[p].check_mode THEN WouldApply(p)
                                                     ELSE Applied(p),
                             params[p].name)

\* C3 as stated: every completed run reports changed = (it applied a mutation,
\* or in check mode would apply one), also when another actor changes the
\* keyspace between the run's metadata queries.
C3_AsStated == \A p \in Procs : pc[p] = "done" => ChangedIsRight(p)

\* C3, amended: the same for every completed run during which no other actor
\* changed the keyspace between the run's first metadata query and its return.
C3_Undisturbed ==
    \A p \in Procs : (pc[p] = "done" /\ ~interfered[p]) => ChangedIsRight(p)

\* A run that created the keyspace undisturbed while the other controller was
\* at work on the same keyspace.
C3_Witness ==
    /\ pc[1] = "done"
    /\ ~interfered[1]
    /\ ~params[1].check_mode
    /\ Applied(1)
    /\ stdout[1] = ResultRecord(TRUE, params[1].name)
    /\ calls[2] # << >>
    /\ interfered[2]

====
